---- MODULE Spec2Model ----
(***************************************************************************)
(* State-machine model of the e-commerce backend in src/main.py and        *)
(* src/schemas.py: the document store's collections, the request handlers  *)
(* register, add_review (with its get_current_user dependency),            *)
(* create_order, seed and list_products, and the store calls each handler  *)
(* makes, one store call per step.                                         *)
(*                                                                         *)
(* Conventions                                                             *)
(*   - An Optional[T] value is a sequence of length 0 (None) or 1.         *)
(*   - A text (str that is searched) is a tuple of one-character strings.  *)
(*   - price is in cents, rating in hundredths (4.6 is 460).               *)
(*   - A collection is the sequence of its documents in insertion order;   *)
(*     the _id the store assigns to a document is its position.            *)
(*   - A product id given in a URL is an integer: 0 stands for a string    *)
(*     that is no ObjectId, GhostId for a well-formed id of no document.   *)
(*   - A bearer token is an integer: NoToken for a request without an      *)
(*     Authorization header, BadToken for one jwt.decode rejects, and      *)
(*     k > 0 for a token that decodes to sub = k.                          *)
(***************************************************************************)
EXTENDS Integers, Sequences, FiniteSets, TLC

VARIABLES
    dbConfigured,   \* database.db is not None
    users,          \* db["user"]
    categories,     \* db["category"]
    products,       \* db["product"]
    reviews,        \* db["review"]
    orders,         \* db["order"]
    pc,             \* pc[r]: where request r is in its handler
    req,            \* req[r]: the request (operation and inputs)
    loc,            \* loc[r]: the handler's local variables
    result          \* result[r]: the response sent for request r

vars == <<dbConfigured, users, categories, products, reviews, orders, pc, req, loc, result>>
store == <<dbConfigured, users, categories, products, reviews, orders>>

(***************************************************************************)
(* Bounds of the model.                                                    *)
(***************************************************************************)
MaxReq == 3          \* requests issued in one behaviour
MaxWorkers == 2      \* requests in progress at the same time
MaxCatalog == 3      \* products in the catalog a list_products query sees
MaxPage == 3         \* largest page asked for
MaxLimit == 2        \* largest limit asked for (besides the default)

(***************************************************************************)
(* Program constants.                                                      *)
(***************************************************************************)
MinRating == 1
MaxRating == 5
DefaultLimit == 12
GlassPrice == 12900
HolderPrice == 4900
VirtualPrice == 999
GlassRating == 460
HolderRating == 440
VirtualRating == 480
GlassRatingCount == 42
HolderRatingCount == 26
VirtualRatingCount == 61

Req == 1..MaxReq
NoToken == 0
BadToken == 0 - 1
GhostId == 3 * MaxReq + 1   \* larger than any _id assigned in a behaviour
None == <<>>
Some(x) == <<x>>

Min(a, b) == IF a < b THEN a ELSE b
Max(a, b) == IF a < b THEN b ELSE a
Abs(a) == IF a < 0 THEN 0 - a ELSE a

(***************************************************************************)
(* Texts.                                                                  *)
(***************************************************************************)
UpperCase == <<"A", "B", "C", "D", "E", "F", "G", "H", "I", "J", "K", "L", "M",
               "N", "O", "P", "Q", "R", "S", "T", "U", "V", "W", "X", "Y", "Z">>
LowerCase == <<"a", "b", "c", "d", "e", "f", "g", "h", "i", "j", "k", "l", "m",
               "n", "o", "p", "q", "r", "s", "t", "u", "v", "w", "x", "y", "z">>

Characters ==
    {UpperCase[i] : i \in 1..Len(UpperCase)} \cup {LowerCase[i] : i \in 1..Len(LowerCase)}
        \cup {" ", ",", "-", "."}

LowerForm ==
    [c \in Characters |->
        IF \E i \in 1..Len(UpperCase) : UpperCase[i] = c
            THEN LowerCase[CHOOSE i \in 1..Len(UpperCase) : UpperCase[i] = c]
            ELSE c]

\* The "i" option of $regex: letters compare by their lower-case form.
Lower(c) == LowerForm[c]

\* {field: {"$regex": pat, "$options": "i"}} on a string field, for a pattern
\* without regex metacharacters: pat occurs in text, ignoring case.
RegexSearchI(pat, text) ==
    \E k \in 0..(Len(text) - Len(pat)) :
        \A j \in 1..Len(pat) : Lower(text[k + j]) = Lower(pat[j])

GlassTitle == <<"G", "l", "a", "s", "s", " ", "C", "r", "e", "d", "i", "t", " ", "C", "a", "r", "d">>
GlassDescription == <<"M", "i", "n", "i", "m", "a", "l", ",", " ", "p", "r", "e", "m", "i", "u", "m", " ", "g", "l", "a", "s", "s", "-", "m", "o", "r", "p", "h", "i", "c", " ", "c", "a", "r", "d", ".">>
HolderTitle == <<"M", "e", "t", "a", "l", " ", "C", "a", "r", "d", " ", "H", "o", "l", "d", "e", "r">>
HolderDescription == <<"S", "l", "i", "m", " ", "a", "l", "u", "m", "i", "n", "u", "m", " ", "R", "F", "I", "D", "-", "b", "l", "o", "c", "k", "i", "n", "g", " ", "h", "o", "l", "d", "e", "r", ".">>
VirtualTitle == <<"V", "i", "r", "t", "u", "a", "l", " ", "C", "a", "r", "d", " ", "S", "u", "b", "s", "c", "r", "i", "p", "t", "i", "o", "n">>
VirtualDescription == <<"S", "e", "c", "u", "r", "e", " ", "v", "i", "r", "t", "u", "a", "l", " ", "c", "a", "r", "d", "s", " ", "f", "o", "r", " ", "o", "n", "l", "i", "n", "e", " ", "p", "u", "r", "c", "h", "a", "s", "e", "s", ".">>
TagCard == <<"c", "a", "r", "d">>
TagGlass == <<"g", "l", "a", "s", "s">>
TagFintech == <<"f", "i", "n", "t", "e", "c", "h">>
TagHolder == <<"h", "o", "l", "d", "e", "r">>
TagRfid == <<"r", "f", "i", "d">>
TagSubscription == <<"s", "u", "b", "s", "c", "r", "i", "p", "t", "i", "o", "n">>
TagVirtual == <<"v", "i", "r", "t", "u", "a", "l">>

(***************************************************************************)
(* The documents seed inserts.  images and variants are left out: no       *)
(* handler modelled here reads them.                                       *)
(***************************************************************************)
SeedCategories ==
    << [name |-> "Cards", slug |-> "cards"],
       [name |-> "Accessories", slug |-> "accessories"],
       [name |-> "Digital", slug |-> "digital"] >>

SeedProducts ==
    << [title |-> GlassTitle, slug |-> "glass-credit-card",
        description |-> Some(GlassDescription), price |-> GlassPrice,
        category |-> "cards", tags |-> <<TagCard, TagGlass, TagFintech>>,
        rating |-> GlassRating, rating_count |-> GlassRatingCount],
       [title |-> HolderTitle, slug |-> "metal-card-holder",
        description |-> Some(HolderDescription), price |-> HolderPrice,
        category |-> "accessories", tags |-> <<TagHolder, TagRfid>>,
        rating |-> HolderRating, rating_count |-> HolderRatingCount],
       [title |-> VirtualTitle, slug |-> "virtual-card-subscription",
        description |-> Some(VirtualDescription), price |-> VirtualPrice,
        category |-> "digital", tags |-> <<TagSubscription, TagVirtual>>,
        rating |-> VirtualRating, rating_count |-> VirtualRatingCount] >>

(***************************************************************************)
(* Store calls.                                                            *)
(***************************************************************************)
\* insert_one / insert_many: the documents are appended, each given a fresh _id.
WithId(doc, id) == [f \in (DOMAIN doc) \cup {"_id"} |-> IF f = "_id" THEN id ELSE doc[f]]

InsertMany(coll, docs) ==
    coll \o [i \in 1..Len(docs) |-> WithId(docs[i], Len(coll) + i)]

InsertOne(coll, doc) == InsertMany(coll, <<doc>>)

\* The documents of a collection; a filter is the set of those it matches.
Documents(coll) == {coll[i] : i \in 1..Len(coll)}

\* find(filter): the matching documents in the collection's natural order.
Find(coll, matching) == SelectSeq(coll, LAMBDA d : d \in matching)

\* count_documents(filter)
CountDocuments(coll, matching) == Len(Find(coll, matching))

\* cursor.sort([(field, dir)]): ordered by the field, documents with equal keys
\* staying in natural order.
SortsBefore(a, b, field, dir) ==
    IF dir = 1 THEN a[field] < b[field] ELSE a[field] > b[field]

InsertSorted(doc, sorted, field, dir) ==
    LET n == Cardinality({i \in 1..Len(sorted) : SortsBefore(sorted[i], doc, field, dir)})
    IN  SubSeq(sorted, 1, n) \o <<doc>> \o SubSeq(sorted, n + 1, Len(sorted))

RECURSIVE CursorSort(_, _, _)
CursorSort(docs, field, dir) ==
    IF docs = <<>> THEN <<>>
    ELSE InsertSorted(Head(docs), CursorSort(Tail(docs), field, dir), field, dir)

\* cursor.skip(n), for n >= 0
CursorSkip(docs, n) == SubSeq(docs, n + 1, Len(docs))

\* cursor.limit(n): 0 is no limit, a negative n limits to -n documents.
CursorLimit(docs, n) ==
    IF n = 0 THEN docs ELSE SubSeq(docs, 1, Min(Abs(n), Len(docs)))

\* doc["id"] = str(doc.pop("_id"))
IdOut(doc) ==
    [f \in ((DOMAIN doc) \ {"_id"}) \cup {"id"} |-> IF f = "id" THEN doc["_id"] ELSE doc[f]]

(***************************************************************************)
(* Requests and responses.                                                 *)
(***************************************************************************)
NoReq ==
    [op |-> "none", name |-> "", email |-> "", pid |-> 0, body_pid |-> 0,
     has_user |-> FALSE, rating |-> 0, token |-> NoToken,
     q |-> None, category |-> None, min_price |-> None, max_price |-> None,
     page |-> 1, limit |-> DefaultLimit, sort |-> None]

NoLoc == [current |-> None, revs |-> <<>>, rid |-> 0]

NoResult == [status |-> 0, detail |-> "", id |-> 0, items |-> <<>>, page |-> 0, limit |-> 0, total |-> 0]

Reply(status, detail) == [NoResult EXCEPT !.status = status, !.detail = detail]

\* if q: and if category: (None and the empty string are falsy)
TruthyText(x) == x # None /\ x[1] # <<>>
TruthyStr(x) == x # None /\ x[1] # ""

(***************************************************************************)
(* list_products                                                           *)
(***************************************************************************)
\* filter_q, applied to one product document
FilterQ(doc, rq) ==
    /\ TruthyText(rq.q) =>
          \/ RegexSearchI(rq.q[1], doc.title)
          \/ doc.description # None /\ RegexSearchI(rq.q[1], doc.description[1])
          \/ \E t \in 1..Len(doc.tags) : RegexSearchI(rq.q[1], doc.tags[t])
    /\ TruthyStr(rq.category) => doc.category = rq.category[1]
    /\ rq.min_price # None => doc.price >= rq.min_price[1]
    /\ rq.max_price # None => doc.price <= rq.max_price[1]

\* sort_spec
SortSpec(sort) ==
    IF sort = Some("price_asc") THEN Some(<<"price", 1>>)
    ELSE IF sort = Some("price_desc") THEN Some(<<"price", 0 - 1>>)
    ELSE IF sort = Some("rating_desc") THEN Some(<<"rating", 0 - 1>>)
    ELSE None

\* cursor = db["product"].find(filter_q), sorted when sort_spec is set
Cursor(rq) ==
    LET found == Find(products, {d \in Documents(products) : FilterQ(d, rq)})
        spec == SortSpec(rq.sort)
    IN  IF spec # None THEN CursorSort(found, spec[1][1], spec[1][2]) ELSE found

\* A total counted on the paged cursor (count(with_limit_and_skip=True)).
TotalOfPage(rq) ==
    Len(CursorLimit(CursorSkip(Cursor(rq), (rq.page - 1) * rq.limit), rq.limit))

\* total
Total(rq) == CountDocuments(products, {d \in Documents(products) : FilterQ(d, rq)})

\* A page that starts one page late: skip(page * limit).
PageFromNext(rq) == CursorLimit(CursorSkip(Cursor(rq), rq.page * rq.limit), rq.limit)

\* the documents the cursor yields after skip((page - 1) * limit).limit(limit)
Page(rq) == CursorLimit(CursorSkip(Cursor(rq), (rq.page - 1) * rq.limit), rq.limit)

\* Query(None, ge=0) on min_price and max_price
QueryValid(rq) ==
    /\ rq.min_price # None => rq.min_price[1] >= 0
    /\ rq.max_price # None => rq.max_price[1] >= 0

ListProductsResponse(rq) ==
    IF ~QueryValid(rq) THEN Reply(422, "validation error")
    ELSE IF ~dbConfigured THEN Reply(500, "Database not configured")
    ELSE IF (rq.page - 1) * rq.limit < 0 THEN Reply(500, "skip must be >= 0")
    ELSE LET total == Total(rq)
             docs == Page(rq)
         IN  [Reply(200, "") EXCEPT
                !.items = [i \in 1..Len(docs) |-> IdOut(docs[i])],
                !.page = rq.page, !.limit = rq.limit, !.total = total]

ListProducts(r, q, category, min_price, max_price, page, limit, sort) ==
    LET rq == [NoReq EXCEPT !.op = "list_products", !.q = q, !.category = category,
                            !.min_price = min_price, !.max_price = max_price,
                            !.page = page, !.limit = limit, !.sort = sort]
    IN  /\ pc[r] = "new"
        /\ req' = [req EXCEPT ![r] = rq]
        /\ result' = [result EXCEPT ![r] = ListProductsResponse(rq)]
        /\ pc' = [pc EXCEPT ![r] = "done"]
        /\ UNCHANGED <<store, loc>>

(***************************************************************************)
(* The catalog specification: list_products as a function of the product   *)
(* collection and the query, on every catalog of at most MaxCatalog of the *)
(* products below.                                                         *)
(***************************************************************************)
PlainTitle == <<"G", "i", "f", "t", " ", "c", "a", "r", "d">>

\* A product created with the schema's defaults: no description, no tags,
\* rating 0.0 and rating_count 0; it costs what the card holder costs.
PlainProduct ==
    [title |-> PlainTitle, slug |-> "gift-card", description |-> None,
     price |-> HolderPrice, category |-> "cards", tags |-> <<>>,
     rating |-> 0, rating_count |-> 0]

ProductPool == {SeedProducts[i] : i \in 1..Len(SeedProducts)} \cup {PlainProduct}

Catalogs ==
    {InsertMany(<<>>, s) :
        s \in {t \in UNION {[1..n -> ProductPool] : n \in 0..MaxCatalog} :
                    \A i, j \in 1..Len(t) : i # j => t[i] # t[j]}}

QInputs == {None, Some(<<>>), Some(TagCard), Some(<<"G", "L", "A", "S", "S">>)}
CategoryInputs == {None, Some(""), Some("cards")}
MinPriceInputs == {None, Some(0 - 1), Some(0), Some(HolderPrice)}
MaxPriceInputs == {None, Some(HolderPrice)}
PageInputs == 0..MaxPage
LimitInputs == (0..MaxLimit) \cup {DefaultLimit}
SortInputs == {None, Some("price_asc"), Some("price_desc"), Some("rating_desc")}

\* The one request of a specification in which a single request is sent.
Client == CHOOSE r \in Req : \A o \in Req : r <= o

InitRequests ==
    /\ pc = [r \in Req |-> "new"]
    /\ req = [r \in Req |-> NoReq]
    /\ loc = [r \in Req |-> NoLoc]
    /\ result = [r \in Req |-> NoResult]

InitCatalog ==
    /\ dbConfigured \in BOOLEAN
    /\ products \in (IF dbConfigured THEN Catalogs ELSE {<<>>})
    /\ users = <<>> /\ categories = <<>> /\ reviews = <<>> /\ orders = <<>>
    /\ InitRequests

\* One client sends one list_products query.
NextCatalog ==
    /\ pc[Client] = "new"
    /\ \E q \in QInputs, category \in CategoryInputs, min_price \in MinPriceInputs,
          max_price \in MaxPriceInputs, page \in PageInputs, limit \in LimitInputs,
          sort \in SortInputs :
            ListProducts(Client, q, category, min_price, max_price, page, limit, sort)

SpecCatalog == InitCatalog /\ [][NextCatalog]_vars

(***************************************************************************)
(* get_current_user: the dependency of add_review.  oauth2_scheme rejects  *)
(* a request without a bearer token; jwt.decode rejects a bad one; the     *)
(* subject must be the _id of a stored user.  Its value is the response    *)
(* that ends the request, or the user found.                               *)
(***************************************************************************)
FindUserById(id) == SelectSeq(users, LAMBDA u : u["_id"] = id)

GetCurrentUser(token) ==
    IF token = NoToken THEN [error |-> Some(Reply(401, "Not authenticated")), user |-> None]
    ELSE IF token = BadToken
        THEN [error |-> Some(Reply(401, "Could not validate credentials")), user |-> None]
    ELSE IF ~dbConfigured
        THEN [error |-> Some(Reply(500, "Internal Server Error")), user |-> None]
    ELSE IF FindUserById(token) = <<>>
        THEN [error |-> Some(Reply(401, "Could not validate credentials")), user |-> None]
    ELSE [error |-> None, user |-> Some(Head(FindUserById(token)))]

(***************************************************************************)
(* add_review                                                              *)
(***************************************************************************)
\* A Review schema whose rating has no upper bound (ge=1 alone).
ReviewValidNoUpperBound(rq) == rq.has_user /\ rq.rating >= MinRating

\* The Review schema: user_id and user_name are required, rating is ge=1, le=5.
ReviewValid(rq) == rq.has_user /\ rq.rating >= MinRating /\ rq.rating <= MaxRating

\* ObjectId(product_id) raises InvalidId unless the string is a well-formed id.
IsObjectId(pid) == pid > 0

\* avg cut to 2 decimals instead of rounded.
Truncate2(total, n) == (100 * total) \div n

\* round(avg, 2) of avg = total / n, in hundredths: the nearest hundredth, the
\* even one when two are equally near.
Round2(total, n) ==
    LET lo == (100 * total) \div n
        twice == 2 * ((100 * total) % n)
    IN  IF twice < n THEN lo
        ELSE IF twice > n THEN lo + 1
        ELSE IF lo % 2 = 0 THEN lo ELSE lo + 1

RECURSIVE SumRatings(_)
SumRatings(revs) == IF revs = <<>> THEN 0 ELSE Head(revs).rating + SumRatings(Tail(revs))

\* A find that forgets its filter: every review, whatever its product.
ReviewsOfAny(pid) == Find(reviews, Documents(reviews))

\* list(db["review"].find({"product_id": product_id}))
ReviewsOf(pid) == Find(reviews, {d \in Documents(reviews) : d.product_id = pid})

\* An update that folds the new review into the stored fields instead of
\* recomputing them from the reviews.
UpdateRatingIncremental(pid, revs) ==
    [i \in 1..Len(products) |->
        IF products[i]["_id"] = pid
            THEN [products[i] EXCEPT
                    !.rating = Round2(products[i].rating_count * products[i].rating
                                        + 100 * revs[Len(revs)].rating,
                                      100 * (products[i].rating_count + 1)),
                    !.rating_count = products[i].rating_count + 1]
            ELSE products[i]]

\* update_one({"_id": ObjectId(product_id)}, {"$set": {rating, rating_count}})
UpdateRating(pid, revs) ==
    [i \in 1..Len(products) |->
        IF products[i]["_id"] = pid
            THEN [products[i] EXCEPT !.rating = Round2(SumRatings(revs), Len(revs)),
                                     !.rating_count = Len(revs)]
            ELSE products[i]]

\* The request is received: the dependency, the body's validation, and the
\* handler up to its first store call.
AddReviewStart(r, pid, body_pid, has_user, rating, token) ==
    LET rq == [NoReq EXCEPT !.op = "add_review", !.pid = pid, !.body_pid = body_pid,
                            !.has_user = has_user, !.rating = rating, !.token = token]
        auth == GetCurrentUser(token)
    IN  /\ pc[r] = "new"
        /\ req' = [req EXCEPT ![r] = rq]
        /\ IF auth.error # None
              THEN /\ result' = [result EXCEPT ![r] = auth.error[1]]
                   /\ pc' = [pc EXCEPT ![r] = "done"]
                   /\ UNCHANGED loc
           ELSE IF ~ReviewValid(rq)
              THEN /\ result' = [result EXCEPT ![r] = Reply(422, "validation error")]
                   /\ pc' = [pc EXCEPT ![r] = "done"]
                   /\ UNCHANGED loc
           ELSE IF body_pid # pid
              THEN /\ result' = [result EXCEPT ![r] = Reply(400, "Mismatched product id")]
                   /\ pc' = [pc EXCEPT ![r] = "done"]
                   /\ UNCHANGED loc
           ELSE /\ loc' = [loc EXCEPT ![r].current = auth.user]
                /\ pc' = [pc EXCEPT ![r] = "ar_insert"]
                /\ UNCHANGED result
        /\ UNCHANGED store

\* rid = db["review"].insert_one(data).inserted_id
AddReviewInsert(r) ==
    /\ pc[r] = "ar_insert"
    /\ reviews' = InsertOne(reviews,
            [product_id |-> req[r].pid, rating |-> req[r].rating,
             user_id |-> Some(loc[r].current[1]["_id"]),
             user_name |-> Some(loc[r].current[1].name)])
    /\ loc' = [loc EXCEPT ![r].rid = Len(reviews) + 1]
    /\ pc' = [pc EXCEPT ![r] = "ar_find"]
    /\ UNCHANGED <<dbConfigured, users, categories, products, orders, req, result>>

\* revs = list(db["review"].find({"product_id": product_id}))
AddReviewFind(r) ==
    /\ pc[r] = "ar_find"
    /\ loc' = [loc EXCEPT ![r].revs = ReviewsOf(req[r].pid)]
    /\ pc' = [pc EXCEPT ![r] = "ar_update"]
    /\ UNCHANGED <<store, req, result>>

\* An update that reads the reviews again as it writes (find and update as
\* one atomic step).
AddReviewUpdateAtomic(r) ==
    /\ pc[r] = "ar_update"
    /\ pc' = [pc EXCEPT ![r] = "done"]
    /\ result' = [result EXCEPT ![r] = [Reply(200, "") EXCEPT !.id = loc[r].rid]]
    /\ products' = UpdateRating(req[r].pid, ReviewsOf(req[r].pid))
    /\ UNCHANGED <<dbConfigured, users, categories, reviews, orders, req, loc>>

\* if revs: ... db["product"].update_one(...); return {"id": str(rid)}
AddReviewUpdate(r) ==
    /\ pc[r] = "ar_update"
    /\ pc' = [pc EXCEPT ![r] = "done"]
    /\ IF loc[r].revs # <<>> /\ ~IsObjectId(req[r].pid)
          THEN /\ result' = [result EXCEPT ![r] = Reply(500, "Internal Server Error")]
               /\ UNCHANGED products
          ELSE /\ result' = [result EXCEPT ![r] = [Reply(200, "") EXCEPT !.id = loc[r].rid]]
               /\ products' = IF loc[r].revs # <<>>
                                 THEN UpdateRating(req[r].pid, loc[r].revs)
                                 ELSE products
    /\ UNCHANGED <<dbConfigured, users, categories, reviews, orders, req, loc>>

(***************************************************************************)
(* register                                                                *)
(***************************************************************************)
\* db["user"].find_one({"email": user.email})
FindUserByEmail(email) == SelectSeq(users, LAMBDA u : u.email = email)

\* if db is None: 500; existing = find_one(...); if existing: 400
RegisterFind(r, name, email) ==
    /\ pc[r] = "new"
    /\ req' = [req EXCEPT ![r] = [NoReq EXCEPT !.op = "register", !.name = name, !.email = email]]
    /\ IF ~dbConfigured
          THEN /\ result' = [result EXCEPT ![r] = Reply(500, "Database not configured")]
               /\ pc' = [pc EXCEPT ![r] = "done"]
       ELSE IF FindUserByEmail(email) # <<>>
          THEN /\ result' = [result EXCEPT ![r] = Reply(400, "Email already registered")]
               /\ pc' = [pc EXCEPT ![r] = "done"]
       ELSE /\ pc' = [pc EXCEPT ![r] = "rg_insert"]
            /\ UNCHANGED result
    /\ UNCHANGED <<store, loc>>

\* user_id = db["user"].insert_one({...}).inserted_id; return UserOut(...)
RegisterInsert(r) ==
    /\ pc[r] = "rg_insert"
    /\ users' = InsertOne(users, [name |-> req[r].name, email |-> req[r].email])
    /\ result' = [result EXCEPT ![r] = [Reply(200, "") EXCEPT !.id = Len(users) + 1]]
    /\ pc' = [pc EXCEPT ![r] = "done"]
    /\ UNCHANGED <<dbConfigured, categories, products, reviews, orders, req, loc>>

(***************************************************************************)
(* create_order: one insert_one of the caller's order.                     *)
(***************************************************************************)
CreateOrder(r, email) ==
    /\ pc[r] = "new"
    /\ req' = [req EXCEPT ![r] = [NoReq EXCEPT !.op = "create_order", !.email = email]]
    /\ pc' = [pc EXCEPT ![r] = "done"]
    /\ IF ~dbConfigured
          THEN /\ result' = [result EXCEPT ![r] = Reply(500, "Internal Server Error")]
               /\ UNCHANGED orders
          ELSE /\ orders' = InsertOne(orders, [email |-> email, status |-> "pending"])
               /\ result' = [result EXCEPT ![r] =
                                [Reply(200, "received") EXCEPT !.id = Len(orders) + 1]]
    /\ UNCHANGED <<dbConfigured, users, categories, products, reviews, loc>>

(***************************************************************************)
(* seed                                                                    *)
(***************************************************************************)
\* if db["category"].count_documents({}) == 0:
SeedCountCategories(r) ==
    /\ pc[r] = "new"
    /\ req' = [req EXCEPT ![r] = [NoReq EXCEPT !.op = "seed"]]
    /\ IF ~dbConfigured
          THEN /\ result' = [result EXCEPT ![r] = Reply(500, "Internal Server Error")]
               /\ pc' = [pc EXCEPT ![r] = "done"]
          ELSE /\ pc' = [pc EXCEPT ![r] =
                            IF CountDocuments(categories, Documents(categories)) = 0
                                THEN "sd_insert_categories" ELSE "sd_count_products"]
               /\ UNCHANGED result
    /\ UNCHANGED <<store, loc>>

\* db["category"].insert_many(categories)
SeedInsertCategories(r) ==
    /\ pc[r] = "sd_insert_categories"
    /\ categories' = InsertMany(categories, SeedCategories)
    /\ pc' = [pc EXCEPT ![r] = "sd_count_products"]
    /\ UNCHANGED <<dbConfigured, users, products, reviews, orders, req, loc, result>>

\* A seed that does not look at the product collection.
ProductsEmptyAlways == TRUE

\* if db["product"].count_documents({}) == 0:
ProductsEmpty == CountDocuments(products, Documents(products)) = 0

SeedCountProducts(r) ==
    /\ pc[r] = "sd_count_products"
    /\ IF ProductsEmpty
          THEN /\ pc' = [pc EXCEPT ![r] = "sd_insert_products"]
               /\ UNCHANGED result
          ELSE /\ pc' = [pc EXCEPT ![r] = "done"]
               /\ result' = [result EXCEPT ![r] = Reply(200, "ok")]
    /\ UNCHANGED <<store, req, loc>>

\* db["product"].insert_many(products); return {"ok": True}
SeedInsertProducts(r) ==
    /\ pc[r] = "sd_insert_products"
    /\ products' = InsertMany(products, SeedProducts)
    /\ result' = [result EXCEPT ![r] = Reply(200, "ok")]
    /\ pc' = [pc EXCEPT ![r] = "done"]
    /\ UNCHANGED <<dbConfigured, users, categories, reviews, orders, req, loc>>

(***************************************************************************)
(* The store when the first request arrives: empty, or holding one user,   *)
(* the seeded categories, and the seeded products followed by a product    *)
(* created with the schema's defaults.  Without a configured database      *)
(* there are no collections.                                               *)
(***************************************************************************)
FirstUser == [name |-> "Ann", email |-> "a@x.com"]
PlainId == Len(SeedProducts) + 1

InitStore ==
    /\ dbConfigured \in BOOLEAN
    /\ reviews = <<>> /\ orders = <<>>
    /\ \/ users = <<>> /\ categories = <<>> /\ products = <<>>
       \/ /\ dbConfigured
          /\ users = InsertOne(<<>>, FirstUser)
          /\ categories = InsertMany(<<>>, SeedCategories)
          /\ products = InsertMany(<<>>, SeedProducts \o <<PlainProduct>>)

Init == InitStore /\ InitRequests

(***************************************************************************)
(* Inputs.                                                                 *)
(***************************************************************************)
Emails == {"a@x.com", "b@x.com"}
ProductIds == {products[i]["_id"] : i \in 1..Len(products)}
UserIds == {users[i]["_id"] : i \in 1..Len(users)}

\* Requests that pass authentication and validation, by the first user, for
\* the first seeded product or the product created with defaults.
ReviewTargets == ProductIds \cap {1, PlainId}
ReviewTokens == UserIds \cap {1}
ReviewRatings == MinRating..MaxRating
EdgeRatings == {MinRating, MaxRating}
OrderEmails == {"a@x.com"}

\* Every kind of add_review request.
AnyProductId == {0, 1, PlainId, GhostId}
AnyRating == (MinRating - 1)..(MaxRating + 1)
AnyToken == {NoToken, BadToken, 1, GhostId}

Step(r) ==
    \/ AddReviewInsert(r)
    \/ AddReviewFind(r)
    \/ AddReviewUpdate(r)
    \/ RegisterInsert(r)
    \/ SeedInsertCategories(r)
    \/ SeedCountProducts(r)
    \/ SeedInsertProducts(r)

Start(r, ratings) ==
    \/ \E pid \in ReviewTargets, rating \in ratings, token \in ReviewTokens :
            AddReviewStart(r, pid, pid, TRUE, rating, token)
    \/ \E email \in Emails : RegisterFind(r, "Ann", email)
    \/ \E email \in OrderEmails : CreateOrder(r, email)
    \/ SeedCountCategories(r)

\* Requests are numbered in the order they arrive.
Arrives(r) == \A o \in Req : o < r => pc[o] # "new"

InProgress == {r \in Req : pc[r] \notin {"new", "done"}}

\* Requests are handled concurrently, by at most MaxWorkers workers: a request
\* starts when a worker is free, and any request in progress may take its next
\* step.
WorkerFree == Cardinality(InProgress) < MaxWorkers

Next == \E r \in Req : (WorkerFree /\ Arrives(r) /\ Start(r, EdgeRatings)) \/ Step(r)

Spec == Init /\ [][Next]_vars

\* Requests run one after another: a request starts when none is in progress.
Quiet == InProgress = {}

NextSeq == \E r \in Req : (Quiet /\ Arrives(r) /\ Start(r, ReviewRatings)) \/ Step(r)

SpecSeq == Init /\ [][NextSeq]_vars

\* One client sends one add_review request of any kind.
NextApi ==
    \/ /\ pc[Client] = "new"
       /\ \E pid \in AnyProductId, body_pid \in AnyProductId, has_user \in BOOLEAN,
             rating \in AnyRating, token \in AnyToken :
               AddReviewStart(Client, pid, body_pid, has_user, rating, token)
    \/ AddReviewInsert(Client)
    \/ AddReviewFind(Client)
    \/ AddReviewUpdate(Client)

SpecApi == Init /\ [][NextApi]_vars

(***************************************************************************)
(* What the claims are stated with.                                        *)
(***************************************************************************)
Done(r, op) == pc[r] = "done" /\ req[r].op = op
Ok(r, op) == Done(r, op) /\ result[r].status = 200

ProductWithId(pid) == CHOOSE d \in {products[i] : i \in 1..Len(products)} : d["_id"] = pid

\* The positions in the review collection of the reviews that reference pid.
ReviewIndexes(pid) == {i \in 1..Len(reviews) : reviews[i].product_id = pid}

RECURSIVE SumAt(_)
SumAt(idx) ==
    IF idx = {} THEN 0
    ELSE LET i == CHOOSE j \in idx : TRUE IN reviews[i].rating + SumAt(idx \ {i})

RECURSIVE SumSubmitted(_)
SumSubmitted(rs) ==
    IF rs = {} THEN 0
    ELSE LET r == CHOOSE x \in rs : TRUE IN req[r].rating + SumSubmitted(rs \ {r})

\* rating (in hundredths) is total / n rounded to 2 decimals: no hundredth is nearer.
IsMeanRounded(rating, total, n) ==
    /\ 2 * (100 * total - rating * n) <= n
    /\ 2 * (rating * n - 100 * total) <= n

\* rating (in hundredths) is exactly total / n.
IsMean(rating, total, n) == rating * n = 100 * total

\* The add_review requests for pid that have completed with success.
Reviewed(pid) == {r \in Req : Ok(r, "add_review") /\ req[r].pid = pid}

\* C1: when add_review requests run one after another, a product that N >= 1 of
\* them have reviewed has rating_count N and, as rating, the mean of the N
\* submitted ratings rounded to 2 decimals, whatever it held before.
C1_SequentialReviews ==
    \A pid \in ProductIds :
        Reviewed(pid) # {} =>
            /\ ProductWithId(pid).rating_count = Cardinality(Reviewed(pid))
            /\ IsMeanRounded(ProductWithId(pid).rating,
                             SumSubmitted(Reviewed(pid)), Cardinality(Reviewed(pid)))

\* Three reviews (5, 5 and 1, in some order) of the first seeded product, which
\* held 4.6 / 42: it now holds 3.67 / 3.
C1_Witness ==
    /\ Quiet
    /\ Cardinality(Reviewed(1)) = 3
    /\ SumSubmitted(Reviewed(1)) = 11
    /\ ProductWithId(1).slug = "glass-credit-card"
    /\ ProductWithId(1).rating_count = 3
    /\ ProductWithId(1).rating = 367

\* C2 as claimed: in every state every product's rating_count is the number of
\* reviews that reference it and its rating is exactly their mean.
C2_AlwaysExactAggregate ==
    \A i \in 1..Len(products) :
        LET idx == ReviewIndexes(products[i]["_id"])
        IN  /\ products[i].rating_count = Cardinality(idx)
            /\ idx # {} => IsMean(products[i].rating, SumAt(idx), Cardinality(idx))

\* C2 as amended: when requests run one after another, then between requests a
\* product with at least one review has as rating_count the number of its
\* reviews and as rating their mean rounded to 2 decimals, and a product with no
\* review is the document that was inserted (seed's products carry ratings
\* of their own).
C2_AggregateBetweenRequests ==
    Quiet =>
        \A i \in 1..Len(products) :
            LET idx == ReviewIndexes(products[i]["_id"])
            IN  IF idx = {}
                    THEN \E d \in ProductPool : products[i] = WithId(d, products[i]["_id"])
                    ELSE /\ products[i].rating_count = Cardinality(idx)
                         /\ IsMeanRounded(products[i].rating, SumAt(idx), Cardinality(idx))

\* Reviews 5, 5, 1 of the product created with defaults (3.67, not the exact
\* mean), beside seeded products that have no review and keep their ratings.
C2_Witness ==
    /\ Quiet
    /\ Cardinality(ReviewIndexes(PlainId)) = 3
    /\ SumAt(ReviewIndexes(PlainId)) = 11
    /\ ProductWithId(PlainId).rating = 367
    /\ ProductWithId(1).rating_count = GlassRatingCount
    /\ ReviewIndexes(1) = {}

\* C3: add_review is not atomic: its last step writes the count and the rounded
\* mean of the reviews it read in an earlier step, whatever the review
\* collection holds by then; so two requests for one product can leave it with
\* fields that are not those of its stored reviews (C3_LostUpdate).
C3_UpdateWritesSnapshot ==
    [][\A r \in Req :
          (pc[r] = "ar_update" /\ pc'[r] = "done" /\ req[r].pid \in ProductIds) =>
              LET before == ProductWithId(req[r].pid)
                  after == CHOOSE d \in {products'[i] : i \in 1..Len(products')} :
                                d["_id"] = req[r].pid
              IN  /\ reviews' = reviews
                  /\ loc[r].revs # <<>>
                  /\ after.rating_count = Len(loc[r].revs)
                  /\ IsMeanRounded(after.rating, SumRatings(loc[r].revs), Len(loc[r].revs))
      ]_vars

\* Every request has completed, two of them reviews of the same product, and the
\* product's fields are not the count and rounded mean of its stored reviews.
C3_LostUpdate ==
    /\ Quiet
    /\ \E pid \in ProductIds :
        /\ Cardinality(Reviewed(pid)) >= 2
        /\ Cardinality(ReviewIndexes(pid)) = Cardinality(Reviewed(pid))
        /\ \/ ProductWithId(pid).rating_count # Cardinality(ReviewIndexes(pid))
           \/ ~IsMeanRounded(ProductWithId(pid).rating, SumAt(ReviewIndexes(pid)),
                             Cardinality(ReviewIndexes(pid)))

C5_AnonymousReviewSucceeds ==
    \A r \in Req :
        (Done(r, "add_review") /\ dbConfigured
            /\ req[r].token = NoToken /\ ~req[r].has_user
            /\ req[r].pid \in ProductIds /\ req[r].body_pid = req[r].pid
            /\ req[r].rating >= MinRating /\ req[r].rating <= MaxRating) =>
            /\ result[r].status = 200
            /\ Len(reviews) = 1
            /\ reviews[1].user_id = None
            /\ result[r].id = reviews[1]["_id"]
            /\ ProductWithId(req[r].pid).rating_count = 1

\* A filter is supplied when it is given and, for a string, not empty.
SuppliedText(x) == Len(x) = 1 /\ Len(x[1]) > 0
SuppliedStr(x) == Len(x) = 1 /\ x[1] \notin {""}

\* pat occurs in text at some position k, letter case aside.
ContainsIgnoringCase(text, pat) ==
    \E k \in 1..Len(text) :
        /\ k + Len(pat) - 1 <= Len(text)
        /\ \A j \in 1..Len(pat) : Lower(text[k + j - 1]) = Lower(pat[j])

Satisfies(doc, rq) ==
    /\ SuppliedText(rq.q) =>
          \/ ContainsIgnoringCase(doc.title, rq.q[1])
          \/ doc.description # None /\ ContainsIgnoringCase(doc.description[1], rq.q[1])
          \/ \E t \in 1..Len(doc.tags) : ContainsIgnoringCase(doc.tags[t], rq.q[1])
    /\ SuppliedStr(rq.category) => doc.category = rq.category[1]
    /\ rq.min_price # None => doc.price >= rq.min_price[1]
    /\ rq.max_price # None => doc.price <= rq.max_price[1]

\* C6: the total list_products returns is the number of products that satisfy
\* every supplied filter, whatever page, limit and sort are.
C6_TotalIsMatchCount ==
    \A r \in Req :
        Ok(r, "list_products") =>
            result[r].total
                = Cardinality({i \in 1..Len(products) : Satisfies(products[i], req[r])})

\* Page 2 of a text search sorted by price: one item is returned, three match.
C6_Witness ==
    /\ Ok(Client, "list_products")
    /\ req[Client].q = Some(TagCard)
    /\ req[Client].max_price # None
    /\ req[Client].sort = Some("price_desc")
    /\ req[Client].page = 2 /\ req[Client].limit = 2
    /\ Len(result[Client].items) = 1
    /\ result[Client].total = 3

\* The filtered and sorted product sequence of a query, as it is returned.
Listed(rq) == LET docs == Cursor(rq) IN [i \in 1..Len(docs) |-> IdOut(docs[i])]

\* The items of the pages p, p + 1, ... of a query that lists n products.
RECURSIVE PagesFrom(_, _, _)
PagesFrom(rq, p, n) ==
    IF (p - 1) * rq.limit >= n THEN <<>>
    ELSE ListProductsResponse([rq EXCEPT !.page = p]).items \o PagesFrom(rq, p + 1, n)

\* C7: for page >= 1 and limit >= 1 the items are the slice of the filtered and
\* sorted sequence that starts at offset (page - 1) * limit and has at most limit
\* elements, and the pages 1, 2, ... together are that sequence (the pages are
\* put together where the request is the one for page 1).
C7_PageIsSlice ==
    \A r \in Req :
        (Ok(r, "list_products") /\ req[r].page >= 1 /\ req[r].limit >= 1) =>
            LET all == Listed(req[r])
                off == (req[r].page - 1) * req[r].limit
                n == Max(0, Min(req[r].limit, Len(all) - off))
            IN  /\ Len(result[r].items) <= req[r].limit
                /\ result[r].items = [i \in 1..n |-> all[off + i]]
                /\ req[r].page = 1 => PagesFrom(req[r], 1, Len(all)) = all

\* Page 2 with limit 2 of three products sorted by rating: the third one.
C7_Witness ==
    /\ Ok(Client, "list_products")
    /\ req[Client].sort = Some("rating_desc")
    /\ req[Client].page = 2 /\ req[Client].limit = 2
    /\ result[Client].total = 3
    /\ Len(result[Client].items) = 1
    /\ result[Client].items[1].id = Listed(req[Client])[3].id

\* C8: no step of a seed request that runs after a seed request has completed
\* changes the category or the product collection.
C8_SeedIdempotent ==
    [][\A r \in Req :
          (req'[r].op = "seed" /\ pc'[r] # pc[r]
              /\ \E other \in Req \ {r} : Ok(other, "seed")) =>
              (categories' = categories /\ products' = products)
      ]_vars

\* Two seed requests have completed on a store that was empty: the collections
\* hold the sample documents once.
C8_Witness ==
    /\ Cardinality({r \in Req : Ok(r, "seed")}) >= 2
    /\ reviews = <<>> /\ users = <<>>
    /\ products = InsertMany(<<>>, SeedProducts)
    /\ categories = InsertMany(<<>>, SeedCategories)

\* C9 as claimed: no two user documents have the same email.
C9_UniqueEmails ==
    \A i, j \in 1..Len(users) : users[i].email = users[j].email => i = j

\* C10: the product created with rating_count 0 never has a rating_count above
\* the number of reviews stored for it, and when its rating_count is positive
\* its rating is between 1 and 5.
C10_NeverOverCounts ==
    \A i \in 1..Len(products) :
        products[i].slug = PlainProduct.slug =>
            /\ products[i].rating_count <= Cardinality(ReviewIndexes(products[i]["_id"]))
            /\ products[i].rating_count > 0 =>
                (products[i].rating >= 100 * MinRating /\ products[i].rating <= 100 * MaxRating)

\* A stale write has under-counted: every request is complete, three reviews of
\* the product are stored, and its rating_count is smaller.
C10_Witness ==
    /\ Quiet
    /\ PlainId \in ProductIds
    /\ Cardinality(ReviewIndexes(PlainId)) = 3
    /\ ProductWithId(PlainId).rating_count > 0
    /\ ProductWithId(PlainId).rating_count < 3
    /\ ReviewIndexes(1) = {}

====
